---- MODULE Spec2Model ----
(***************************************************************************)
(* Power monitoring, shutdown sweep and reminder cycle of the server       *)
(* management bot (src/bot.py).                                            *)
(*                                                                         *)
(* Three threads of control are modelled:                                  *)
(*   - the polling thread  PowerMonitor._monitor_power,                    *)
(*   - the reminder thread PowerMonitor._notification_cycle,               *)
(*   - the asyncio event loop of the bot, which runs the coroutines handed *)
(*     to it (handle_power_loss, handle_power_restore,                     *)
(*     send_power_reminder, handle_test_confirmation, list_servers) one at *)
(*     a time and switches between them only at an await.                  *)
(* The handlers of the updates (buttons, dialog texts) run in the event    *)
(* loop one update after the other; those that call nothing that takes     *)
(* time are one step each.                                                 *)
(* Time is not measured: a time.sleep is a step of its own, so that a      *)
(* delay that is taken can be told from one that is skipped.               *)
(*                                                                         *)
(* The specifications share the actions:                                   *)
(*   Spec       the power monitoring and the test shutdowns together; it   *)
(*              starts from the empty registry or from MaxTargets servers  *)
(*              of which the last one has a stored password and the others *)
(*              no credential,                                             *)
(*   SweepSpec  the operator never sends /start (no monitoring) and runs   *)
(*              test shutdowns; it starts from every registry, so every    *)
(*              combination of credentials and host behaviours is swept.   *)
(*   PowerSpec  Spec without test shutdowns: the polling thread, the       *)
(*              reminder thread and the handlers of the power events,      *)
(*   LiveSpec   Spec with the fairness of the event loop, for what a sweep *)
(*              eventually does,                                           *)
(*   AuthSpec   one server with any stored credentials, a password and a   *)
(*              key file at once included; the operator asks for the list  *)
(*              of servers (test_connection) and runs test shutdowns,      *)
(*   DialogSpec the updates of every account, authorized or not: the       *)
(*              add-server dialog, the removal of a server and the         *)
(*              test-shutdown dialog, from an empty servers table,         *)
(*   SnapshotSpec  test shutdowns while another process inserts and        *)
(*              deletes rows of the servers table,                         *)
(*   ApiSpec    the power monitoring with stop_monitoring and              *)
(*              start_monitoring called in any order.                      *)
(***************************************************************************)
EXTENDS Integers, Sequences, FiniteSets, TLC

\* ---------------------------------------------------------------- bounds
\* coroutines that are in the event loop at the same time
MaxTasks == 2
\* servers in the registry
MaxTargets == 2
\* polling threads of earlier start_monitoring calls that are still alive
MaxOldLoops == 1

\* ------------------------------------------------------ program constants
max_retries == 3

\* --------------------------------------------------------------- inputs
ServerNames == <<"A", "B", "C", "D">>

\* what the servers table holds for authentication, as shutdown_server
\* sees it: password_encrypted is empty ("none"), decryptable ("good") or
\* not decryptable with the current key ("bad"); key_file is TRUE when
\* key_path is set and the file exists.
Credentials ==
    { [password_encrypted |-> "good", key_file |-> FALSE],
      [password_encrypted |-> "bad",  key_file |-> FALSE],
      [password_encrypted |-> "none", key_file |-> TRUE],
      [password_encrypted |-> "none", key_file |-> FALSE] }

\* ... and the rows that hold a stored password and a key file at once
AllCredentials ==
    Credentials \cup { [password_encrypted |-> "good", key_file |-> TRUE],
                       [password_encrypted |-> "bad",  key_file |-> TRUE] }

Server(n, c) == [name |-> n, cred |-> c]

\* the registries a behaviour can start with: servers named in order,
\* names unique, any credentials
Registries ==
    UNION { { [i \in 1..n |-> Server(ServerNames[i], f[i])] :
                f \in [1..n -> Credentials] } : n \in 0..MaxTargets }

\* the registries of the system specification: no server, or MaxTargets
\* servers of which only the last can be connected to
SystemRegistries ==
    { r \in Registries :
        /\ Len(r) \in {0, MaxTargets}
        /\ \A i \in 1..Len(r) :
              r[i].cred = IF i = Len(r)
                          THEN [password_encrypted |-> "good", key_file |-> FALSE]
                          ELSE [password_encrypted |-> "none", key_file |-> FALSE] }

\* the registries of the authentication specification: one server, with
\* any of the credentials
AuthRegistries == { <<Server(ServerNames[1], c)>> : c \in AllCredentials }

\* ServerBot.allowed_username
allowed_username == "allowed"

\* Telegram accounts: 1 is the account of the operator, 2 another account
UserIds == {1, 2}

\* update.effective_user of an update: the id of the account and the
\* username it carries when the update is sent.  The operator's account
\* carries the allowed username or, after a change of its username,
\* another one; the other account never carries the allowed username.
Updates ==
    { [id |-> 1, username |-> allowed_username],
      [id |-> 1, username |-> "other"],
      [id |-> 2, username |-> "other"] }

\* the updates of the operator under the allowed username
OperatorUpdates == { u \in Updates : u.username = allowed_username }

\* what the add-server dialog has collected: the name and what was entered
\* for the authentication ("password", or "key" with key_file telling
\* whether the path that was entered exists)
NoData == [name |-> "none", auth |-> "none", key_file |-> FALSE,
           entry |-> FALSE]
EmptyData == [NoData EXCEPT !.entry = TRUE]

\* what the remote host does in one attempt; a host that does not let the
\* client in is never asked to run the command (its exec stays "silent")
ConnectResults == {"connected", "refused", "auth_rejected"}
ExecResults == {"exit0", "exit1", "exec_error", "silent"}
HostBehaviours ==
    { h \in [connect : ConnectResults, exec : ExecResults] :
        h.connect # "connected" => h.exec = "silent" }

\* what one call of _get_charging_status meets:
\*   termux-battery-status returns 0 and prints a JSON object whose
\*     'plugged' is not 'UNPLUGGED' / is 'UNPLUGGED' / is missing,
\*   it returns 0 and prints something that is no JSON object,
\*   subprocess.run raises (the command is missing) or times out,
\*   it returns non-zero and the status file reads 'Charging' / reads
\*     another status / cannot be read
Readings ==
    {"plugged", "unplugged", "no_plugged_field", "not_json",
     "command_missing", "timeout",
     "fallback_charging", "fallback_other", "fallback_unreadable"}

\* the readings for which the try block raises
FailedRead(reading) ==
    reading \in {"not_json", "command_missing", "timeout",
                 "fallback_unreadable"}

\* ------------------------------------------------- SSHManager.shutdown_server
NoMsg == [text |-> "none", n |-> 0, err |-> "none"]
Msg(t, n, e) == [text |-> t, n |-> n, err |-> e]

\* authentication resolution of one attempt: which credential the attempt
\* hands to connect, "unavailable" when there is none, "decrypt_error"
\* when the stored password cannot be decrypted (decrypt raises)
ResolveAuthWithoutExists(cred) ==
    IF cred.password_encrypted # "none"
    THEN IF cred.password_encrypted = "good" THEN "password" ELSE "decrypt_error"
    ELSE "key_filename"

ResolveAuthKeyFirst(cred) ==
    IF cred.key_file THEN "key_filename"
    ELSE IF cred.password_encrypted # "none"
    THEN IF cred.password_encrypted = "good" THEN "password" ELSE "decrypt_error"
    ELSE "unavailable"

ResolveAuthFallingBackToKey(cred) ==
    IF cred.password_encrypted = "good" THEN "password"
    ELSE IF cred.key_file THEN "key_filename"
    ELSE IF cred.password_encrypted = "bad" THEN "decrypt_error"
    ELSE "unavailable"

ResolveAuth(cred) ==
    IF cred.password_encrypted # "none"
    THEN IF cred.password_encrypted = "good" THEN "password" ELSE "decrypt_error"
    ELSE IF cred.key_file THEN "key_filename" ELSE "unavailable"

\* the exception an attempt raises, "none" when it raises nothing
AttemptException(cred, host) ==
    CASE ResolveAuth(cred) = "decrypt_error" -> "decrypt_error"
      [] ResolveAuth(cred) = "unavailable" -> "none"
      [] host.connect # "connected" -> host.connect
      [] host.exec = "exec_error" -> "exec_error"
      [] OTHER -> "none"

\* TRUE when the attempt calls client.connect
Connects(cred) == ResolveAuth(cred) \in {"password", "key_filename"}

TestConnectionRetrying(cred, host) ==
    LET auth == ResolveAuth(cred) IN
    IF auth = "decrypt_error"
    THEN [ok |-> FALSE, msg |-> Msg("exception", 0, "decrypt_error"),
          auth |-> auth, connects |-> 0]
    ELSE IF auth = "unavailable"
    THEN [ok |-> FALSE, msg |-> Msg("no_auth", 0, "none"),
          auth |-> auth, connects |-> 0]
    ELSE IF host.connect # "connected"
    THEN [ok |-> FALSE, msg |-> Msg("exception", 0, host.connect),
          auth |-> auth, connects |-> 2]
    ELSE [ok |-> TRUE, msg |-> Msg("connection_successful", 0, "none"),
          auth |-> auth, connects |-> 1]

\* SSHManager.test_connection: the same authentication resolution as in
\* shutdown_server, one client.connect, client.close; every exception of
\* the body is caught and returned as (False, str(e)).  connects counts
\* the calls of client.connect; exec_command is not called, so that what
\* the host would do with a command plays no part.
TestConnection(cred, host) ==
    LET auth == ResolveAuth(cred) IN
    IF auth = "decrypt_error"
    THEN [ok |-> FALSE, msg |-> Msg("exception", 0, "decrypt_error"),
          auth |-> auth, connects |-> 0]
    ELSE IF auth = "unavailable"
    THEN [ok |-> FALSE, msg |-> Msg("no_auth", 0, "none"),
          auth |-> auth, connects |-> 0]
    ELSE IF host.connect # "connected"
    THEN [ok |-> FALSE, msg |-> Msg("exception", 0, host.connect),
          auth |-> auth, connects |-> 1]
    ELSE [ok |-> TRUE, msg |-> Msg("connection_successful", 0, "none"),
          auth |-> auth, connects |-> 1]

SleepsAfterFirstException(attempt) == attempt = 0

\* the branch of the except clause: sleep before the next attempt
SleepsAfterException(attempt) == attempt # max_retries - 1

\* the branch for a non-zero exit status: falls through to the next
\* iteration of the for loop, no time.sleep on this path
SleepsAfterExitStatus(attempt) == FALSE

\* the statement after the for loop, reached when range(max_retries) is
\* exhausted without a return
MaxRetriesExceeded ==
    [end |-> "return", ok |-> FALSE, msg |-> Msg("max_retries_exceeded", 0, "none")]

AttemptNumberedFromZero(cred, attempt, host) ==
    LET exc == AttemptException(cred, host) IN
    IF exc # "none"
    THEN IF SleepsAfterException(attempt)
         THEN [end |-> "sleep", ok |-> FALSE, msg |-> NoMsg]
         ELSE [end |-> "return", ok |-> FALSE,
               msg |-> Msg("connection_failed", max_retries, exc)]
    ELSE IF ResolveAuth(cred) = "unavailable"
    THEN [end |-> "return", ok |-> FALSE, msg |-> Msg("no_auth", 0, "none")]
    ELSE IF host.exec = "silent"
    THEN [end |-> "blocked", ok |-> FALSE, msg |-> NoMsg]
    ELSE IF host.exec = "exit0"
    THEN [end |-> "return", ok |-> TRUE,
          msg |-> Msg("success", attempt, "none")]
    ELSE IF attempt = max_retries - 1
    THEN [end |-> "return", ok |-> FALSE,
          msg |-> Msg("shutdown_failed", 0, "exit1")]
    ELSE IF SleepsAfterExitStatus(attempt)
    THEN [end |-> "sleep", ok |-> FALSE, msg |-> NoMsg]
    ELSE [end |-> "next", ok |-> FALSE, msg |-> NoMsg]

\* One iteration of the for loop of shutdown_server, attempt in
\* 0..max_retries-1.  The result says how the iteration ends:
\*   "return"  the function returns (ok, msg)
\*   "next"    the loop continues with attempt+1 at once
\*   "sleep"   time.sleep(2), then the loop continues with attempt+1
\*   "blocked" recv_exit_status waits for an exit status that never comes
Attempt(cred, attempt, host) ==
    LET exc == AttemptException(cred, host) IN
    IF exc # "none"
    THEN IF SleepsAfterException(attempt)
         THEN [end |-> "sleep", ok |-> FALSE, msg |-> NoMsg]
         ELSE [end |-> "return", ok |-> FALSE,
               msg |-> Msg("connection_failed", max_retries, exc)]
    ELSE IF ResolveAuth(cred) = "unavailable"
    THEN [end |-> "return", ok |-> FALSE, msg |-> Msg("no_auth", 0, "none")]
    ELSE IF host.exec = "silent"
    THEN [end |-> "blocked", ok |-> FALSE, msg |-> NoMsg]
    ELSE IF host.exec = "exit0"
    THEN [end |-> "return", ok |-> TRUE,
          msg |-> Msg("success", attempt + 1, "none")]
    ELSE IF attempt = max_retries - 1
    THEN [end |-> "return", ok |-> FALSE,
          msg |-> Msg("shutdown_failed", 0, "exit1")]
    ELSE IF SleepsAfterExitStatus(attempt)
    THEN [end |-> "sleep", ok |-> FALSE, msg |-> NoMsg]
    ELSE [end |-> "next", ok |-> FALSE, msg |-> NoMsg]

\* ------------------------------------------------------------------ state
VARIABLES
    registry,            \* the servers table, in SELECT order
    is_monitoring,       \* PowerMonitor.is_monitoring
    is_charging,         \* PowerMonitor.is_charging, the held power state
    current_charging,    \* local of _monitor_power
    monitor_pc,          \* position of the polling thread
    notification_thread, \* position of the reminder thread, "none" = not alive
    tasks,               \* coroutines in the event loop, in the order handed in
    running,             \* the task that occupies the loop thread, 0 = none
    emitted,             \* the last power event handed to the loop
    read_failed,         \* the last step of the polling thread handed an
                         \* event over on a reading that came from the
                         \* except clause of _get_charging_status
    stale_sleep,         \* the time.sleep(300) the reminder thread is in
                         \* began before the last Lost event
    logged,              \* the rows that log_event appended to the
                         \* event_logs table in the step just taken
    user_states,         \* ServerBot.user_states: the dialog state of a
                         \* user id, "none" for an id that has no entry
    temp_server_data,    \* ServerBot.temp_server_data: what the add-server
                         \* dialog of a user id has collected, NoData for
                         \* an id that has no entry
    old_loops,           \* the threads of _monitor_power that an earlier
                         \* start_monitoring started and that have not
                         \* returned
    ticks_after_stop     \* the reminders handed to the loop since
                         \* stop_monitoring was called on battery, NoStop
                         \* when it was not called since the last Lost

vars == <<registry, is_monitoring, is_charging, current_charging, monitor_pc,
          notification_thread, tasks, running, emitted, read_failed,
          stale_sleep, logged, user_states, temp_server_data, old_loops,
          ticks_after_stop>>

\* the part of the state that only the handlers of updates change
dialog == <<user_states, temp_server_data>>

\* the part of the state that is there for stop_monitoring
api == <<old_loops, ticks_after_stop>>

NoRows == <<>>

NoStop == -1

\* DatabaseManager.log_event(event_type, description, server_name, status):
\* one row of the events table (the description is left out)
log_event(event_type, server_name, status) ==
    <<[event_type |-> event_type, server_name |-> server_name,
       status |-> status]>>

NoRet == [ok |-> FALSE, msg |-> NoMsg]

\* update.effective_user of a coroutine that handles no update
NoUser == [id |-> 0, username |-> "none"]

\* a coroutine object handed to the loop, before its first step; the
\* fields from servers on are the locals of the handler and of the
\* shutdown_server or test_connection call it is in (auth: what the last
\* attempt of this call resolved its authentication to; text: the lines
\* of list_servers)
NewTask(kind) ==
    [kind |-> kind, pc |-> "queued", servers |-> <<>>, idx |-> 1,
     attempt |-> 0, at |-> "try", connects |-> 0, delays |-> 0,
     auth |-> "none", ret |-> NoRet, shutdown_results |-> <<>>,
     text |-> <<>>, during_sweep |-> FALSE, user |-> NoUser]

TaskIds == 1..Len(tasks)

\* a coroutine is inside its for loop over the servers
InSweep(t) == t.pc = "sweep"

SweepActive == \E i \in TaskIds : InSweep(tasks[i])

\* asyncio.run_coroutine_threadsafe(coro, loop): the coroutine is appended
\* to the loop's queue.  during_sweep records, for a power-loss handler,
\* that it was handed in while a sweep was in flight.
Schedule(kind) ==
    Append(tasks, [NewTask(kind) EXCEPT
                     !.during_sweep = (kind = "loss" /\ SweepActive)])

\* the coroutine at position i has returned or raised: the loop drops it
Drop(i) ==
    [j \in 1..(Len(tasks) - 1) |-> IF j < i THEN tasks[j] ELSE tasks[j + 1]]

GetChargingStatusFailClosed(reading) ==
    IF FailedRead(reading) THEN FALSE
    ELSE reading \in {"plugged", "fallback_charging"}

GetChargingStatusTimeoutAsUnplugged(reading) ==
    IF FailedRead(reading) THEN reading # "timeout"
    ELSE reading \in {"plugged", "fallback_charging"}

\* PowerMonitor._get_charging_status: every exception is caught and read
\* as "connected to power"; a JSON object without 'plugged' counts as
\* 'UNPLUGGED', a status other than 'Charging' as not charging
GetChargingStatus(reading) ==
    IF FailedRead(reading) THEN TRUE
    ELSE reading \in {"plugged", "fallback_charging"}

InitWith(R) ==
    /\ registry \in R
    /\ is_monitoring = FALSE
    /\ is_charging \in { GetChargingStatus(r) : r \in Readings }
    /\ current_charging = is_charging
    /\ read_failed = FALSE
    /\ monitor_pc = "not_started"
    /\ notification_thread = "none"
    /\ tasks = <<>>
    /\ running = 0
    /\ emitted = "none"
    /\ stale_sleep = FALSE
    /\ logged = NoRows
    /\ user_states = [id \in UserIds |-> "none"]
    /\ temp_server_data = [id \in UserIds |-> NoData]
    /\ old_loops = 0
    /\ ticks_after_stop = NoStop

Init == InitWith(SystemRegistries)

\* the bot was constructed on mains power
SweepInit == InitWith(Registries) /\ is_charging

\* --------------------------------------------------- the polling thread
\* the thread of _monitor_power is inside its while loop
PollingAlive == monitor_pc \in {"read", "update"}

\* start_handler / start_monitoring: the first /start of the operator
\* starts the polling thread.  In general: when is_monitoring is False,
\* the flag is set and a new thread is started and kept in
\* self.monitor_thread, whether or not the thread of an earlier call has
\* returned; monitor_pc is the position of the new thread from then on
start_monitoring ==
    /\ ~is_monitoring
    /\ PollingAlive => old_loops < MaxOldLoops
    /\ is_monitoring' = TRUE
    /\ monitor_pc' = "read"
    /\ old_loops' = IF PollingAlive THEN old_loops + 1 ELSE old_loops
    /\ UNCHANGED <<registry, is_charging, current_charging,
                   notification_thread, tasks, running, emitted>>
    /\ UNCHANGED <<read_failed, stale_sleep, ticks_after_stop>>
    /\ logged' = NoRows
    /\ UNCHANGED dialog

\* PowerMonitor.stop_monitoring: the flag is cleared; the join waits at
\* most one second for the reminder thread and leaves it as it is
stop_monitoring ==
    /\ is_monitoring' = FALSE
    /\ ticks_after_stop' = IF ~is_charging THEN 0 ELSE ticks_after_stop
    /\ UNCHANGED <<registry, is_charging, current_charging, monitor_pc,
                   notification_thread, tasks, running, emitted>>
    /\ UNCHANGED <<read_failed, stale_sleep, old_loops>>
    /\ logged' = NoRows
    /\ UNCHANGED dialog

\* while self.is_monitoring: the polling thread finds the flag cleared at
\* the top of its loop and returns
monitor_power_return ==
    /\ monitor_pc = "read" /\ ~is_monitoring
    /\ monitor_pc' = "returned"
    /\ UNCHANGED <<registry, is_monitoring, is_charging, current_charging,
                   notification_thread, tasks, running, emitted>>
    /\ UNCHANGED <<read_failed, stale_sleep>>
    /\ logged' = NoRows
    /\ UNCHANGED dialog
    /\ UNCHANGED api

\* ... and so does the thread of an earlier start_monitoring.  As long as
\* the flag is set such a thread polls like the new one; its iterations
\* are not modelled a second time.
old_monitor_power_return ==
    /\ old_loops > 0 /\ ~is_monitoring
    /\ old_loops' = old_loops - 1
    /\ UNCHANGED <<registry, is_monitoring, is_charging, current_charging,
                   monitor_pc, notification_thread, tasks, running, emitted>>
    /\ UNCHANGED <<read_failed, stale_sleep, ticks_after_stop>>
    /\ logged' = NoRows
    /\ UNCHANGED dialog

NotificationAlive == notification_thread # "none"

StartNotificationCycleUnchecked == "while"

\* PowerMonitor._start_notification_cycle: where the reminder thread is
\* after the call.  A thread that is alive is left alone; otherwise a new
\* one is created and started.
StartNotificationCycle ==
    IF NotificationAlive THEN notification_thread ELSE "while"

\* where one loop iteration goes after an event has been handed over: on
\* to the assignment self.is_charging = current_charging
AfterDispatch == "update"

\* One iteration up to the hand-over, is_charging and not
\* current_charging: run_coroutine_threadsafe(handle_power_loss) and
\* _start_notification_cycle.  Either call can raise (the loop is closed,
\* no thread can be started); the except clause then sleeps and the loop
\* starts over without the assignment to is_charging.
monitor_power_loss ==
    /\ monitor_pc = "read" /\ is_monitoring
    /\ \E r \in Readings :
          /\ current_charging' = GetChargingStatus(r)
          /\ is_charging /\ ~current_charging'
          /\ \/ \* run_coroutine_threadsafe raises
                /\ monitor_pc' = "read"
                /\ read_failed' = FALSE
                /\ UNCHANGED <<tasks, notification_thread, emitted,
                               stale_sleep, ticks_after_stop>>
             \/ \* handed over, Thread.start raises
                /\ Len(tasks) < MaxTasks
                /\ ~NotificationAlive
                /\ tasks' = Schedule("loss")
                /\ emitted' = "Lost"
                /\ ticks_after_stop' = NoStop
                /\ read_failed' = FailedRead(r)
                /\ monitor_pc' = "read"
                /\ UNCHANGED <<notification_thread, stale_sleep>>
             \/ \* both calls return
                /\ Len(tasks) < MaxTasks
                /\ tasks' = Schedule("loss")
                /\ emitted' = "Lost"
                /\ ticks_after_stop' = NoStop
                /\ read_failed' = FailedRead(r)
                /\ notification_thread' = StartNotificationCycle
                /\ stale_sleep' = (notification_thread = "sleep")
                /\ monitor_pc' = AfterDispatch
    /\ logged' = NoRows
    /\ UNCHANGED <<registry, is_monitoring, is_charging, running>>
    /\ UNCHANGED dialog
    /\ UNCHANGED old_loops

\* not is_charging and current_charging: run_coroutine_threadsafe(
\* handle_power_restore); _stop_notification_cycle does nothing
monitor_power_restore ==
    /\ monitor_pc = "read" /\ is_monitoring
    /\ \E r \in Readings :
          /\ current_charging' = GetChargingStatus(r)
          /\ ~is_charging /\ current_charging'
          /\ \/ \* run_coroutine_threadsafe raises
                /\ monitor_pc' = "read"
                /\ read_failed' = FALSE
                /\ UNCHANGED <<tasks, emitted>>
             \/ /\ Len(tasks) < MaxTasks
                /\ tasks' = Schedule("restore")
                /\ emitted' = "Restored"
                /\ read_failed' = FailedRead(r)
                /\ monitor_pc' = AfterDispatch
    /\ logged' = NoRows
    /\ UNCHANGED <<registry, is_monitoring, is_charging,
                   notification_thread, running, stale_sleep>>
    /\ UNCHANGED dialog
    /\ UNCHANGED api

\* The time.sleep that ended the last iteration of the polling loop:
\* time.sleep(2) follows the assignment of line 300, time.sleep(5) is in
\* the except clause, which is entered from the hand-over calls only and
\* skips that assignment, so that the loop is back at its top with a
\* reading that differs from the held state.
PollSleep == IF monitor_pc = "read" /\ current_charging # is_charging
             THEN 5 ELSE 2

\* neither branch is taken: the reading equals the held state; the
\* assignment and the sleep end the iteration
monitor_no_change ==
    /\ monitor_pc = "read" /\ is_monitoring
    /\ \E r \in Readings : current_charging' = GetChargingStatus(r)
    /\ is_charging = current_charging'
    /\ read_failed' = FALSE
    /\ is_charging' = current_charging'
    /\ monitor_pc' = "read"
    /\ logged' = NoRows
    /\ UNCHANGED <<registry, is_monitoring,
                   notification_thread, tasks, running, emitted, stale_sleep>>
    /\ UNCHANGED dialog
    /\ UNCHANGED api

\* self.is_charging = current_charging; time.sleep(2)
monitor_update ==
    /\ monitor_pc = "update"
    /\ is_charging' = current_charging
    /\ read_failed' = FALSE
    /\ monitor_pc' = "read"
    /\ logged' = NoRows
    /\ UNCHANGED <<registry, is_monitoring, current_charging,
                   notification_thread, tasks, running, emitted,
                   stale_sleep>>
    /\ UNCHANGED dialog
    /\ UNCHANGED api

\* -------------------------------------------------- the reminder thread
\* while not self.is_charging and self.is_monitoring: time.sleep(300)
notification_while ==
    /\ notification_thread = "while"
    /\ notification_thread' =
          IF ~is_charging /\ is_monitoring THEN "sleep" ELSE "none"
    /\ stale_sleep' = FALSE
    /\ logged' = NoRows
    /\ UNCHANGED <<registry, is_monitoring, is_charging, current_charging,
                   monitor_pc, tasks, running, emitted, read_failed>>
    /\ UNCHANGED dialog
    /\ UNCHANGED api

\* one more reminder since stop_monitoring; counted up to two
CountTick(c) == IF c = NoStop THEN NoStop ELSE IF c < 2 THEN c + 1 ELSE c

\* the sleep returns; if not self.is_charging:
\* run_coroutine_threadsafe(send_power_reminder).  The thread has no
\* except clause, a raise ends it.
notification_recheck ==
    /\ notification_thread = "sleep"
    /\ IF is_charging
       THEN /\ notification_thread' = "while"
            /\ UNCHANGED tasks
       ELSE \/ /\ Len(tasks) < MaxTasks
               /\ tasks' = Schedule("reminder")
               /\ notification_thread' = "while"
            \/ /\ notification_thread' = "none"
               /\ UNCHANGED tasks
    /\ ticks_after_stop' =
          IF Len(tasks') > Len(tasks) THEN CountTick(ticks_after_stop)
          ELSE ticks_after_stop
    /\ stale_sleep' = FALSE
    /\ logged' = NoRows
    /\ UNCHANGED <<registry, is_monitoring, is_charging, current_charging,
                   monitor_pc, running, emitted, read_failed>>
    /\ UNCHANGED dialog
    /\ UNCHANGED old_loops

\* ------------------------------------------------------- the event loop
\* Application.bot.send_message / Message.reply_text, awaited
NotifierResults == {"sent", "raised"}

LoopAlwaysFree(i) == TRUE

\* the loop thread is free for task i: no other coroutine is between two
\* of its awaits
LoopFree(i) == running \in {0, i}

\* coroutines start in the order in which they were handed to the loop
FirstQueued(i) ==
    /\ tasks[i].pc = "queued"
    /\ \A j \in 1..(i - 1) : tasks[j].pc # "queued"

OccupiesNothing(i) == 0

\* self.ssh.shutdown_server(server) is an ordinary call inside the
\* coroutine, not awaited: the coroutine keeps the loop thread while it runs
Occupies(i) == i

MoreServersButLast(t) == t.idx + 1 < Len(t.servers)

MoreServersWhileOnBattery(t) == t.idx < Len(t.servers) /\ ~is_charging

\* for server in servers: is there a next server after the idx-th
MoreServers(t) == t.idx < Len(t.servers)

ResultLineAlwaysOk(server, ret) ==
    [name |-> server.name, ok |-> TRUE, msg |-> ret.msg]

\* the lines 633-635 of the loop body: the result line of a server
ResultLine(server, ret) ==
    [name |-> server.name, ok |-> ret.ok, msg |-> ret.msg]

\* Application.run_polling hands the updates to the handlers one after
\* another (no concurrent_updates, blocking handlers): the handler of the
\* next update starts only when the one before has returned or raised.
\* The coroutines of the power events are not updates and do not wait.
NoUpdateInFlight == \A i \in TaskIds : tasks[i].kind \notin {"test", "list"}

\* ServerBot.is_authorized
is_authorized(u) == u.username = allowed_username

\* del self.user_states[id]; for an id without an entry the KeyError ends
\* the handler and nothing changes
DelState(id) == [user_states EXCEPT ![id] = "none"]

\* message_handler with the text of the button "Test Shutdown", which
\* _message_router calls for a user who is not in confirming_test:
\* test_shutdown asks for the confirmation and, when the reply was sent,
\* sets the dialog state; an unauthorized user, an empty registry and a
\* reply that raises leave everything as it is
test_shutdown(u) ==
    /\ NoUpdateInFlight /\ running = 0
    /\ user_states[u.id] # "confirming_test"
    /\ \E n \in NotifierResults :
          user_states' =
             IF is_authorized(u) /\ registry # <<>> /\ n = "sent"
             THEN [user_states EXCEPT ![u.id] = "confirming_test"]
             ELSE user_states
    /\ UNCHANGED <<registry, is_monitoring, is_charging, current_charging,
                   monitor_pc, notification_thread, tasks, running, emitted>>
    /\ UNCHANGED <<read_failed, stale_sleep, temp_server_data>>
    /\ logged' = NoRows
    /\ UNCHANGED api

\* _message_router for a user whose dialog state is confirming_test, with
\* the text CONFIRM TEST: the update is handed to
\* handle_test_confirmation, whoever sends it
confirm_test(u) ==
    /\ NoUpdateInFlight
    /\ user_states[u.id] = "confirming_test"
    /\ Len(tasks) < MaxTasks
    /\ tasks' = Append(tasks, [NewTask("test") EXCEPT !.user = u])
    /\ UNCHANGED <<registry, is_monitoring, is_charging, current_charging,
                   monitor_pc, notification_thread, running, emitted>>
    /\ UNCHANGED <<read_failed, stale_sleep>>
    /\ logged' = NoRows
    /\ UNCHANGED dialog
    /\ UNCHANGED api

\* ... with any other text: handle_test_confirmation replies that the
\* test is cancelled and deletes the dialog state; when the reply raises,
\* the state stays
cancel_test(u) ==
    /\ NoUpdateInFlight /\ running = 0
    /\ user_states[u.id] = "confirming_test"
    /\ \E n \in NotifierResults :
          user_states' = IF n = "sent" THEN DelState(u.id) ELSE user_states
    /\ UNCHANGED <<registry, is_monitoring, is_charging, current_charging,
                   monitor_pc, notification_thread, tasks, running, emitted>>
    /\ UNCHANGED <<read_failed, stale_sleep, temp_server_data>>
    /\ logged' = NoRows
    /\ UNCHANGED api

\* ------------------------------------------- the add-server dialog
\* the dialog states of handle_dialog_state
AddingStates ==
    {"adding_server_name", "adding_server_ip", "adding_server_port",
     "adding_server_username", "adding_server_password",
     "adding_server_key", "adding_server_command"}

\* the server names the operator enters or picks
DialogNames == {ServerNames[1], ServerNames[2]}

\* callback_query_handler with the data add_server: after the
\* authorization check and query.answer(), start_add_server sets the
\* dialog state and an empty temp_server_data entry, whatever state the
\* user was in, and then edits the message
start_add_server(u) ==
    /\ NoUpdateInFlight /\ running = 0
    /\ \E answer \in NotifierResults :
          IF is_authorized(u) /\ answer = "sent"
          THEN /\ user_states' =
                     [user_states EXCEPT ![u.id] = "adding_server_name"]
               /\ temp_server_data' =
                     [temp_server_data EXCEPT ![u.id] = EmptyData]
          ELSE UNCHANGED dialog
    /\ UNCHANGED <<registry, is_monitoring, is_charging, current_charging,
                   monitor_pc, notification_thread, tasks, running, emitted>>
    /\ UNCHANGED <<read_failed, stale_sleep>>
    /\ logged' = NoRows
    /\ UNCHANGED api

\* the branches of handle_dialog_state before adding_server_command: the
\* state and the entry are written before the reply is awaited, so that a
\* reply that raises changes nothing.  The text is a name, any text, a
\* port in 1..65535 or not, the word key or a password, a path of a file
\* that exists or not.
DialogStep(state, data) ==
    CASE state = "adding_server_name" ->
           { [state |-> "adding_server_ip",
              data |-> [data EXCEPT !.name = n]] : n \in DialogNames }
      [] state = "adding_server_ip" ->
           { [state |-> "adding_server_port", data |-> data] }
      [] state = "adding_server_port" ->
           { [state |-> "adding_server_username", data |-> data],
             [state |-> "adding_server_port", data |-> data] }
      [] state = "adding_server_username" ->
           { [state |-> "adding_server_password", data |-> data] }
      [] state = "adding_server_password" ->
           { [state |-> "adding_server_key", data |-> data],
             [state |-> "adding_server_command",
              data |-> [data EXCEPT !.auth = "password"]] }
      [] state = "adding_server_key" ->
           { [state |-> "adding_server_command",
              data |-> [data EXCEPT !.auth = "key", !.key_file = b]] :
             b \in BOOLEAN }
      [] OTHER -> { [state |-> state, data |-> data] }

\* _message_router / message_handler with a text that is no button of the
\* main menu, for a user who is in the add-server dialog:
\* handle_dialog_state.  An update that is not authorized ends at the
\* check of message_handler.
handle_dialog_state(u) ==
    /\ NoUpdateInFlight /\ running = 0
    /\ user_states[u.id] \in AddingStates \ {"adding_server_command"}
    /\ IF is_authorized(u)
       THEN \E next \in DialogStep(user_states[u.id], temp_server_data[u.id]) :
               /\ user_states' = [user_states EXCEPT ![u.id] = next.state]
               /\ temp_server_data' =
                     [temp_server_data EXCEPT ![u.id] = next.data]
       ELSE UNCHANGED dialog
    /\ UNCHANGED <<registry, is_monitoring, is_charging, current_charging,
                   monitor_pc, notification_thread, tasks, running, emitted>>
    /\ UNCHANGED <<read_failed, stale_sleep>>
    /\ logged' = NoRows
    /\ UNCHANGED api

\* the row finish_add_server builds from what was entered: the password
\* encrypted with the key of the installation, or the key path
EnteredCredentials(data) ==
    IF data.auth = "password"
    THEN [password_encrypted |-> "good", key_file |-> FALSE]
    ELSE [password_encrypted |-> "none", key_file |-> data.key_file]

NamesOf(servers) == { servers[i].name : i \in 1..Len(servers) }

\* DatabaseManager.add_server: INSERT; the UNIQUE name makes the INSERT of
\* a name that is in the table raise IntegrityError, which returns False
add_server(name, cred) ==
    IF name \in NamesOf(registry)
    THEN [ok |-> FALSE, servers |-> registry]
    ELSE [ok |-> TRUE, servers |-> Append(registry, Server(name, cred))]

\* DatabaseManager.remove_server: DELETE by name, True when a row went
remove_server(name) ==
    [ok |-> name \in NamesOf(registry),
     servers |-> SelectSeq(registry, LAMBDA s : s.name # name)]

ClearDialog(id) ==
    /\ user_states' = DelState(id)
    /\ temp_server_data' = [temp_server_data EXCEPT ![id] = NoData]

\* handle_dialog_state in adding_server_command, which stores the command
\* and calls finish_add_server: test_connection with the entered data;
\* when it fails, the reply and the two del statements; when it succeeds,
\* add_server, the reply for its result, log_event after the reply of a
\* server that was added, and the two del statements.  A reply that
\* raises ends the handler before the del statements.
finish_add_server(u) ==
    /\ NoUpdateInFlight /\ running = 0
    /\ user_states[u.id] = "adding_server_command"
    /\ IF ~is_authorized(u)
       THEN UNCHANGED <<registry, dialog>> /\ logged' = NoRows
       ELSE LET data == temp_server_data[u.id]
                cred == EnteredCredentials(data)
                added == add_server(data.name, cred)
            IN  \E host \in HostBehaviours, reply \in NotifierResults :
                   LET is_connected == TestConnection(cred, host).ok IN
                   /\ registry' =
                         IF is_connected THEN added.servers ELSE registry
                   /\ logged' =
                         IF is_connected /\ added.ok /\ reply = "sent"
                         THEN log_event("server_added", data.name, "none")
                         ELSE NoRows
                   /\ IF reply = "sent" THEN ClearDialog(u.id)
                      ELSE UNCHANGED dialog
    /\ UNCHANGED <<is_monitoring, is_charging, current_charging,
                   monitor_pc, notification_thread, tasks, running, emitted>>
    /\ UNCHANGED <<read_failed, stale_sleep>>
    /\ UNCHANGED api

\* callback_query_handler with the data remove_<name>:
\* confirm_remove_server deletes the row and logs the removal of a row
\* that was there
confirm_remove_server(u) ==
    /\ NoUpdateInFlight /\ running = 0
    /\ \E name \in DialogNames, answer \in NotifierResults :
          IF is_authorized(u) /\ answer = "sent"
          THEN /\ registry' = remove_server(name).servers
               /\ logged' = IF remove_server(name).ok
                            THEN log_event("server_removed", name, "none")
                            ELSE NoRows
          ELSE UNCHANGED registry /\ logged' = NoRows
    /\ UNCHANGED <<is_monitoring, is_charging, current_charging,
                   monitor_pc, notification_thread, tasks, running, emitted>>
    /\ UNCHANGED <<read_failed, stale_sleep>>
    /\ UNCHANGED dialog
    /\ UNCHANGED api

\* handle_power_loss up to the first await (the outage message)
handle_power_loss_start(i) ==
    /\ LoopFree(i) /\ FirstQueued(i)
    /\ tasks[i].kind = "loss"
    /\ tasks' = [tasks EXCEPT ![i].pc = "await_alert"]
    /\ running' = 0
    /\ UNCHANGED <<registry, is_monitoring, is_charging, current_charging,
                   monitor_pc, notification_thread, emitted>>
    /\ UNCHANGED <<read_failed, stale_sleep>>
    /\ logged' = NoRows
    /\ UNCHANGED dialog
    /\ UNCHANGED api

\* the outage message is sent or send_message raises.  When it raises,
\* the except clause logs the error and the handler returns; when sent:
\* log_event, servers = get_servers(), then either the "no servers"
\* message or the for loop
handle_power_loss_alerted(i) ==
    /\ LoopFree(i)
    /\ tasks[i].kind = "loss" /\ tasks[i].pc = "await_alert"
    /\ \E n \in NotifierResults :
          IF n = "raised"
          THEN /\ tasks' = Drop(i)
               /\ running' = 0
               /\ logged' = log_event("error", "none", "none")
          ELSE IF registry = <<>>
          THEN /\ tasks' = [tasks EXCEPT ![i].pc = "await_report"]
               /\ running' = 0
               /\ logged' = log_event("power_loss", "none", "none")
          ELSE /\ tasks' = [tasks EXCEPT ![i].pc = "sweep",
                                         ![i].servers = registry]
               /\ running' = Occupies(i)
               /\ logged' = log_event("power_loss", "none", "none")
    /\ UNCHANGED <<registry, is_monitoring, is_charging, current_charging,
                   monitor_pc, notification_thread, emitted>>
    /\ UNCHANGED <<read_failed, stale_sleep>>
    /\ UNCHANGED dialog
    /\ UNCHANGED api

\* handle_test_confirmation up to its first await: servers =
\* get_servers(), reply_text
handle_test_confirmation_start(i) ==
    /\ LoopFree(i) /\ FirstQueued(i)
    /\ tasks[i].kind = "test"
    /\ tasks' = [tasks EXCEPT ![i].pc = "await_test_start",
                              ![i].servers = registry]
    /\ running' = 0
    /\ UNCHANGED <<registry, is_monitoring, is_charging, current_charging,
                   monitor_pc, notification_thread, emitted>>
    /\ UNCHANGED <<read_failed, stale_sleep>>
    /\ logged' = NoRows
    /\ UNCHANGED dialog
    /\ UNCHANGED api

\* the reply is sent and the for loop begins (with no server, the report
\* is sent at once), or reply_text raises and the exception leaves the
\* handler
handle_test_confirmation_started(i) ==
    /\ LoopFree(i)
    /\ tasks[i].kind = "test" /\ tasks[i].pc = "await_test_start"
    /\ \E n \in NotifierResults :
          IF n = "raised"
          THEN /\ tasks' = Drop(i)
               /\ running' = 0
          ELSE IF tasks[i].servers = <<>>
          THEN /\ tasks' = [tasks EXCEPT ![i].pc = "await_report"]
               /\ running' = 0
          ELSE /\ tasks' = [tasks EXCEPT ![i].pc = "sweep"]
               /\ running' = Occupies(i)
    /\ UNCHANGED <<registry, is_monitoring, is_charging, current_charging,
                   monitor_pc, notification_thread, emitted>>
    /\ UNCHANGED <<read_failed, stale_sleep>>
    /\ logged' = NoRows
    /\ UNCHANGED dialog
    /\ UNCHANGED api

\* one iteration of the for loop of shutdown_server for the current server
shutdown_attempt(i) ==
    /\ LoopFree(i)
    /\ tasks[i].pc = "sweep" /\ tasks[i].at = "try"
    /\ \E host \in HostBehaviours :
         LET t == tasks[i]
             cred == t.servers[t.idx].cred
             more == t.attempt < max_retries
             r == IF more THEN Attempt(cred, t.attempt, host)
                  ELSE MaxRetriesExceeded
             c == t.connects + (IF more /\ Connects(cred) THEN 1 ELSE 0)
             a == IF more THEN ResolveAuth(cred) ELSE t.auth
         IN tasks' = [tasks EXCEPT ![i] =
              CASE r.end = "return" ->
                     [t EXCEPT !.at = "return", !.connects = c, !.auth = a,
                               !.ret = [ok |-> r.ok, msg |-> r.msg]]
                [] r.end = "next" ->
                     [t EXCEPT !.attempt = t.attempt + 1, !.connects = c,
                               !.auth = a]
                [] r.end = "sleep" ->
                     [t EXCEPT !.at = "sleep", !.connects = c, !.auth = a]
                [] OTHER ->
                     [t EXCEPT !.at = "blocked", !.connects = c,
                               !.auth = a]]
    /\ running' = Occupies(i)
    /\ UNCHANGED <<registry, is_monitoring, is_charging, current_charging,
                   monitor_pc, notification_thread, emitted>>
    /\ UNCHANGED <<read_failed, stale_sleep>>
    /\ logged' = NoRows
    /\ UNCHANGED dialog
    /\ UNCHANGED api

\* time.sleep(2) in the except clause returns, the loop goes on
shutdown_retry_sleep(i) ==
    /\ LoopFree(i)
    /\ tasks[i].pc = "sweep" /\ tasks[i].at = "sleep"
    /\ tasks' = [tasks EXCEPT ![i].at = "try",
                              ![i].attempt = tasks[i].attempt + 1,
                              ![i].delays = tasks[i].delays + 1]
    /\ running' = Occupies(i)
    /\ UNCHANGED <<registry, is_monitoring, is_charging, current_charging,
                   monitor_pc, notification_thread, emitted>>
    /\ UNCHANGED <<read_failed, stale_sleep>>
    /\ logged' = NoRows
    /\ UNCHANGED dialog
    /\ UNCHANGED api

sweep_record_rereading(i) ==
    /\ LoopFree(i)
    /\ tasks[i].pc = "sweep" /\ tasks[i].at = "return"
    /\ LET t == tasks[i]
           u == [t EXCEPT !.shutdown_results =
                              Append(@, ResultLine(t.servers[t.idx], t.ret)),
                          !.servers = registry,
                          !.attempt = 0, !.connects = 0,
                          !.delays = 0, !.auth = "none", !.ret = NoRet]
       IN tasks' = [tasks EXCEPT ![i] =
              IF MoreServers(t)
              THEN [u EXCEPT !.idx = t.idx + 1, !.at = "try"]
              ELSE [u EXCEPT !.idx = t.idx + 1, !.at = "join"]]
    /\ logged' = log_event(IF tasks[i].kind = "loss" THEN "server_shutdown"
                           ELSE "test_shutdown",
                           tasks[i].servers[tasks[i].idx].name,
                           IF tasks[i].ret.ok THEN "success" ELSE "failed")
    /\ running' = Occupies(i)
    /\ UNCHANGED <<registry, is_monitoring, is_charging, current_charging,
                   monitor_pc, notification_thread, emitted>>
    /\ UNCHANGED <<read_failed, stale_sleep>>
    /\ UNCHANGED dialog
    /\ UNCHANGED api

sweep_record_prepending(i) ==
    /\ LoopFree(i)
    /\ tasks[i].pc = "sweep" /\ tasks[i].at = "return"
    /\ LET t == tasks[i]
           u == [t EXCEPT !.shutdown_results =
                              <<ResultLine(t.servers[t.idx], t.ret)>> \o @,
                          !.attempt = 0, !.connects = 0,
                          !.delays = 0, !.auth = "none", !.ret = NoRet]
       IN tasks' = [tasks EXCEPT ![i] =
              IF MoreServers(t)
              THEN [u EXCEPT !.idx = t.idx + 1, !.at = "try"]
              ELSE [u EXCEPT !.idx = t.idx + 1, !.at = "join"]]
    /\ logged' = log_event(IF tasks[i].kind = "loss" THEN "server_shutdown"
                           ELSE "test_shutdown",
                           tasks[i].servers[tasks[i].idx].name,
                           IF tasks[i].ret.ok THEN "success" ELSE "failed")
    /\ running' = Occupies(i)
    /\ UNCHANGED <<registry, is_monitoring, is_charging, current_charging,
                   monitor_pc, notification_thread, emitted>>
    /\ UNCHANGED <<read_failed, stale_sleep>>
    /\ UNCHANGED dialog
    /\ UNCHANGED api

\* the body of the for loop of the handler after shutdown_server has
\* returned: append the result line, log_event, next server; after the
\* last server the loop is left
sweep_record(i) ==
    /\ LoopFree(i)
    /\ tasks[i].pc = "sweep" /\ tasks[i].at = "return"
    /\ LET t == tasks[i]
           u == [t EXCEPT !.shutdown_results =
                              Append(@, ResultLine(t.servers[t.idx], t.ret)),
                          !.attempt = 0, !.connects = 0,
                          !.delays = 0, !.auth = "none", !.ret = NoRet]
       IN tasks' = [tasks EXCEPT ![i] =
              IF MoreServers(t)
              THEN [u EXCEPT !.idx = t.idx + 1, !.at = "try"]
              ELSE [u EXCEPT !.idx = t.idx + 1, !.at = "join"]]
    /\ logged' = log_event(IF tasks[i].kind = "loss" THEN "server_shutdown"
                           ELSE "test_shutdown",
                           tasks[i].servers[tasks[i].idx].name,
                           IF tasks[i].ret.ok THEN "success" ELSE "failed")
    /\ running' = Occupies(i)
    /\ UNCHANGED <<registry, is_monitoring, is_charging, current_charging,
                   monitor_pc, notification_thread, emitted>>
    /\ UNCHANGED <<read_failed, stale_sleep>>
    /\ UNCHANGED dialog
    /\ UNCHANGED api

\* report = header + "\n".join(shutdown_results); the report is handed
\* to send_message / reply_text and the coroutine awaits the outcome
send_report(i) ==
    /\ LoopFree(i)
    /\ tasks[i].pc = "sweep" /\ tasks[i].at = "join"
    /\ tasks' = [tasks EXCEPT ![i].pc = "await_report",
                              ![i].at = "try",
                              ![i].shutdown_results = <<>>]
    /\ running' = 0
    /\ UNCHANGED <<registry, is_monitoring, is_charging, current_charging,
                   monitor_pc, notification_thread, emitted>>
    /\ UNCHANGED <<read_failed, stale_sleep>>
    /\ logged' = NoRows
    /\ UNCHANGED dialog
    /\ UNCHANGED api

\* the report (or the "no servers" message) is sent or the send raises
\* (handle_power_loss catches and logs the exception,
\* handle_test_confirmation lets it escape to the error handler); either
\* way the coroutine ends
report_sent(i) ==
    /\ LoopFree(i)
    /\ tasks[i].pc = "await_report"
    /\ \E n \in NotifierResults :
          /\ tasks' = Drop(i)
          /\ logged' = IF n = "raised" /\ tasks[i].kind = "loss"
                       THEN log_event("error", "none", "none")
                       ELSE NoRows
          /\ user_states' = IF n = "sent" /\ tasks[i].kind = "test"
                            THEN DelState(tasks[i].user.id)
                            ELSE user_states
    /\ UNCHANGED temp_server_data
    /\ running' = 0
    /\ UNCHANGED <<registry, is_monitoring, is_charging, current_charging,
                   monitor_pc, notification_thread, emitted>>
    /\ UNCHANGED <<read_failed, stale_sleep>>
    /\ UNCHANGED api

\* handle_power_restore and send_power_reminder up to their await
message_start(i) ==
    /\ LoopFree(i) /\ FirstQueued(i)
    /\ tasks[i].kind \in {"restore", "reminder"}
    /\ tasks' = [tasks EXCEPT ![i].pc = "await_send"]
    /\ running' = 0
    /\ UNCHANGED <<registry, is_monitoring, is_charging, current_charging,
                   monitor_pc, notification_thread, emitted>>
    /\ UNCHANGED <<read_failed, stale_sleep>>
    /\ logged' = NoRows
    /\ UNCHANGED dialog
    /\ UNCHANGED api

message_sent_writing_state(i) ==
    /\ LoopFree(i)
    /\ tasks[i].pc = "await_send"
    /\ \E n \in NotifierResults :
          /\ tasks' = Drop(i)
          /\ logged' = IF n = "sent" /\ tasks[i].kind = "restore"
                       THEN log_event("power_restore", "none", "none")
                       ELSE NoRows
    /\ running' = 0
    /\ is_charging' = (tasks[i].kind = "restore" \/ is_charging)
    /\ UNCHANGED <<registry, is_monitoring, current_charging,
                   monitor_pc, notification_thread, emitted>>
    /\ UNCHANGED <<read_failed, stale_sleep>>
    /\ UNCHANGED dialog
    /\ UNCHANGED api

\* ... and after it: sent (handle_power_restore logs the event) or the
\* exception is caught and logged; the coroutine ends
message_sent(i) ==
    /\ LoopFree(i)
    /\ tasks[i].pc = "await_send"
    /\ \E n \in NotifierResults :
          /\ tasks' = Drop(i)
          /\ logged' = IF n = "sent" /\ tasks[i].kind = "restore"
                       THEN log_event("power_restore", "none", "none")
                       ELSE NoRows
    /\ running' = 0
    /\ UNCHANGED <<registry, is_monitoring, is_charging, current_charging,
                   monitor_pc, notification_thread, emitted>>
    /\ UNCHANGED <<read_failed, stale_sleep>>
    /\ UNCHANGED dialog
    /\ UNCHANGED api

\* the operator presses "list servers": button_handler calls list_servers
press_list_servers ==
    /\ NoUpdateInFlight
    /\ Len(tasks) < MaxTasks
    /\ tasks' = Schedule("list")
    /\ UNCHANGED <<registry, is_monitoring, is_charging, current_charging,
                   monitor_pc, notification_thread, running, emitted>>
    /\ UNCHANGED <<read_failed, stale_sleep>>
    /\ logged' = NoRows
    /\ UNCHANGED dialog
    /\ UNCHANGED api

\* list_servers up to its for loop: servers = get_servers(); with no
\* server the text is sent at once
list_servers_start(i) ==
    /\ LoopFree(i) /\ FirstQueued(i)
    /\ tasks[i].kind = "list"
    /\ IF registry = <<>>
       THEN /\ tasks' = [tasks EXCEPT ![i].pc = "await_edit"]
            /\ running' = 0
       ELSE /\ tasks' = [tasks EXCEPT ![i].pc = "listing",
                                      ![i].servers = registry]
            /\ running' = Occupies(i)
    /\ UNCHANGED <<registry, is_monitoring, is_charging, current_charging,
                   monitor_pc, notification_thread, emitted>>
    /\ UNCHANGED <<read_failed, stale_sleep>>
    /\ logged' = NoRows
    /\ UNCHANGED dialog
    /\ UNCHANGED api

\* is_online, _ = self.ssh.test_connection(server): the call, up to its
\* return
test_connection(i) ==
    /\ LoopFree(i)
    /\ tasks[i].pc = "listing" /\ tasks[i].at = "try"
    /\ \E host \in HostBehaviours :
         LET t == tasks[i]
             r == TestConnection(t.servers[t.idx].cred, host)
         IN tasks' = [tasks EXCEPT ![i] =
                        [t EXCEPT !.at = "return", !.auth = r.auth,
                                  !.connects = r.connects,
                                  !.ret = [ok |-> r.ok, msg |-> r.msg]]]
    /\ running' = Occupies(i)
    /\ UNCHANGED <<registry, is_monitoring, is_charging, current_charging,
                   monitor_pc, notification_thread, emitted>>
    /\ UNCHANGED <<read_failed, stale_sleep>>
    /\ logged' = NoRows
    /\ UNCHANGED dialog
    /\ UNCHANGED api

\* the rest of the loop body: the line of the server is added to the
\* text; after the last server the text is handed to edit_message_text
list_servers_line(i) ==
    /\ LoopFree(i)
    /\ tasks[i].pc = "listing" /\ tasks[i].at = "return"
    /\ LET t == tasks[i]
           u == [t EXCEPT !.text = Append(@, [name |-> t.servers[t.idx].name,
                                              is_online |-> t.ret.ok]),
                          !.connects = 0, !.auth = "none", !.ret = NoRet,
                          !.idx = t.idx + 1, !.at = "try"]
       IN IF MoreServers(t)
          THEN /\ tasks' = [tasks EXCEPT ![i] = u]
               /\ running' = Occupies(i)
          ELSE /\ tasks' = [tasks EXCEPT ![i] =
                              [u EXCEPT !.pc = "await_edit", !.text = <<>>]]
               /\ running' = 0
    /\ UNCHANGED <<registry, is_monitoring, is_charging, current_charging,
                   monitor_pc, notification_thread, emitted>>
    /\ UNCHANGED <<read_failed, stale_sleep>>
    /\ logged' = NoRows
    /\ UNCHANGED dialog
    /\ UNCHANGED api

\* edit_message_text returns or raises; either way list_servers ends
list_servers_edited(i) ==
    /\ LoopFree(i)
    /\ tasks[i].pc = "await_edit"
    /\ \E n \in NotifierResults : tasks' = Drop(i)
    /\ running' = 0
    /\ UNCHANGED <<registry, is_monitoring, is_charging, current_charging,
                   monitor_pc, notification_thread, emitted>>
    /\ UNCHANGED <<read_failed, stale_sleep>>
    /\ logged' = NoRows
    /\ UNCHANGED dialog
    /\ UNCHANGED api

\* the steps of a sweep, whoever runs it
SweepNext ==
    \/ \E i \in TaskIds : shutdown_attempt(i)
    \/ \E i \in TaskIds : shutdown_retry_sleep(i)
    \/ \E i \in TaskIds : sweep_record(i)
    \/ \E i \in TaskIds : send_report(i)
    \/ \E i \in TaskIds : report_sent(i)

TestNext ==
    \/ \E u \in OperatorUpdates : test_shutdown(u)
    \/ \E u \in OperatorUpdates : confirm_test(u)
    \/ \E u \in OperatorUpdates : cancel_test(u)
    \/ \E i \in TaskIds : handle_test_confirmation_start(i)
    \/ \E i \in TaskIds : handle_test_confirmation_started(i)

MonitorNext ==
    \/ start_monitoring
    \/ monitor_power_loss
    \/ monitor_power_restore
    \/ monitor_no_change
    \/ monitor_update
    \/ notification_while
    \/ notification_recheck
    \/ \E i \in TaskIds : handle_power_loss_start(i)
    \/ \E i \in TaskIds : handle_power_loss_alerted(i)
    \/ \E i \in TaskIds : message_start(i)
    \/ \E i \in TaskIds : message_sent(i)

ListNext ==
    \/ press_list_servers
    \/ \E i \in TaskIds : list_servers_start(i)
    \/ \E i \in TaskIds : test_connection(i)
    \/ \E i \in TaskIds : list_servers_line(i)
    \/ \E i \in TaskIds : list_servers_edited(i)

\* The servers table is the file bot_data.db, which every call of
\* DatabaseManager opens anew (sqlite3.connect): a second process that has
\* the file open (another instance of the bot on the same directory)
\* inserts and deletes rows with the same two statements at any time,
\* also while the event loop of this instance is inside a sweep
another_add_server ==
    /\ \E name \in DialogNames :
          LET added == add_server(name, [password_encrypted |-> "good",
                                         key_file |-> FALSE])
          IN  added.ok /\ registry' = added.servers
    /\ UNCHANGED <<is_monitoring, is_charging, current_charging,
                   monitor_pc, notification_thread, tasks, running, emitted>>
    /\ UNCHANGED <<read_failed, stale_sleep>>
    /\ logged' = NoRows
    /\ UNCHANGED dialog
    /\ UNCHANGED api

another_remove_server ==
    /\ \E name \in DialogNames :
          /\ remove_server(name).ok
          /\ registry' = remove_server(name).servers
    /\ UNCHANGED <<is_monitoring, is_charging, current_charging,
                   monitor_pc, notification_thread, tasks, running, emitted>>
    /\ UNCHANGED <<read_failed, stale_sleep>>
    /\ logged' = NoRows
    /\ UNCHANGED dialog
    /\ UNCHANGED api

OutsideNext ==
    \/ another_add_server
    \/ another_remove_server

ApiNext ==
    \/ stop_monitoring
    \/ monitor_power_return
    \/ old_monitor_power_return

\* the updates of every account: the test-shutdown dialog, the add-server
\* dialog and the removal of a server
DialogNext ==
    \/ \E u \in Updates : test_shutdown(u)
    \/ \E u \in Updates : confirm_test(u)
    \/ \E u \in Updates : cancel_test(u)
    \/ \E i \in TaskIds : handle_test_confirmation_start(i)
    \/ \E i \in TaskIds : handle_test_confirmation_started(i)
    \/ \E u \in Updates : start_add_server(u)
    \/ \E u \in Updates : handle_dialog_state(u)
    \/ \E u \in Updates : finish_add_server(u)
    \/ \E u \in Updates : confirm_remove_server(u)

Next == MonitorNext \/ TestNext \/ SweepNext

Spec == Init /\ [][Next]_vars

\* the bot was constructed on mains power, with one server
AuthInit == InitWith(AuthRegistries) /\ is_charging

\* the operator asks for the list of servers and runs test shutdowns
AuthSpec == AuthInit /\ [][ListNext \/ TestNext \/ SweepNext]_vars

\* the operator never sends /start: test shutdowns only
SweepSpec == SweepInit /\ [][TestNext \/ SweepNext]_vars

\* the operator starts the monitoring and runs no test shutdown
PowerSpec == Init /\ [][MonitorNext \/ SweepNext]_vars

\* the bot was constructed on mains power with an empty servers table
DialogInit == InitWith({<<>>}) /\ is_charging

\* no /start: the accounts add and remove servers and run test shutdowns
DialogSpec == DialogInit /\ [][DialogNext \/ SweepNext]_vars

\* the operator runs test shutdowns while the servers table is written
\* from outside
SnapshotSpec == DialogInit /\ [][TestNext \/ SweepNext \/ OutsideNext]_vars

\* one server whose stored password cannot be decrypted
ApiRegistries ==
    { <<Server(ServerNames[1],
               [password_encrypted |-> "bad", key_file |-> FALSE])>> }

ApiInit == InitWith(ApiRegistries)

\* the interface of PowerMonitor: start_monitoring and stop_monitoring
\* are called in any order
ApiSpec == ApiInit /\ [][MonitorNext \/ SweepNext \/ ApiNext]_vars

\* the event loop goes on running the coroutine that holds it: a step of a
\* sweep that can be taken is taken
LiveSpec == Spec /\ WF_vars(SweepNext)

\* ================================================================ claims
\* this step hands a coroutine of the given kind to the loop
Handed(kind) ==
    /\ Len(tasks') = Len(tasks) + 1
    /\ tasks'[Len(tasks')].kind = kind

\* this step ends the coroutine at position i
Dropped(i) == tasks' = Drop(i)

\* the server a sweeping coroutine is working on
Current(t) == t.servers[t.idx]

NoCredential(cred) == cred.password_encrypted = "none" /\ ~cred.key_file

\* C1: every Lost event gets exactly one sweep: a power-loss handler never
\* ends without having run its sweep (it ends only after its report), and
\* it enters the for loop only once, from its outage message.
C1_OneSweepPerLost ==
    [][\A i \in TaskIds :
         tasks[i].kind = "loss" =>
           /\ Dropped(i) => tasks[i].pc = "await_report"
           /\ (i <= Len(tasks') /\ InSweep(tasks'[i]) /\ ~InSweep(tasks[i]))
                => tasks[i].pc = "await_alert"]_vars

\* C2: a failed Notifier send is only logged and never keeps the caller
\* from completing: a power-loss handler that waits for its outage message
\* to be sent is never ended by the outcome of that send.
C2_FailedSendOnlyLogged ==
    [][\A i \in TaskIds :
         (tasks[i].kind = "loss" /\ tasks[i].pc = "await_alert")
           => ~Dropped(i)]_vars

\* C3: every wait on a remote operation is bounded, so a sweep in flight
\* can always take its next step, whatever the remote host does.
C3_SweepNeverStuck ==
    \A i \in TaskIds :
      InSweep(tasks[i]) =>
        ENABLED (shutdown_attempt(i) \/ shutdown_retry_sleep(i)
                 \/ sweep_record(i) \/ send_report(i))

\* C4: a sweep yields exactly one outcome per target, in the targets'
\* positions (none missing, none duplicated; all N of them when the loop is
\* left), and every shutdown_server call returns after 1..max_retries
\* attempts.
C4_OneOutcomePerTarget ==
    \A i \in TaskIds :
      LET t == tasks[i] IN
      InSweep(t) =>
        /\ Len(t.shutdown_results) = t.idx - 1
        /\ \A k \in 1..Len(t.shutdown_results) :
              t.shutdown_results[k].name = t.servers[k].name
        /\ t.at = "join" <=> t.idx = Len(t.servers) + 1
        /\ t.at = "return" =>
              /\ t.attempt + 1 \in 1..max_retries
              /\ t.ret.msg.text # "max_retries_exceeded"

\* a sweep over MaxTargets targets has left its loop with all outcomes,
\* the last of them a success on the third attempt
C4_Witness ==
    \E i \in TaskIds :
      /\ InSweep(tasks[i]) /\ tasks[i].at = "join"
      /\ Len(tasks[i].shutdown_results) = MaxTargets
      /\ tasks[i].shutdown_results[MaxTargets].msg = Msg("success", 3, "none")

\* C5: the events handed over by the polling loop alternate: no Lost is
\* handed over when the previous event was Lost, no Restored when the
\* previous event was Restored.
C5_EventsAlternate ==
    [][/\ Handed("loss") => emitted # "Lost"
       /\ Handed("restore") => emitted # "Restored"]_vars

\* C6: at most one coroutine is inside its for loop over the servers.
C6_OneSweepInFlight ==
    Cardinality({ i \in TaskIds : InSweep(tasks[i]) }) <= 1

\* a power-loss handler and a test shutdown are in the loop together, one
\* in the middle of its sweep, the other past its first await
C6_Witness ==
    \E i, j \in TaskIds :
      /\ InSweep(tasks[i]) /\ tasks[i].idx = 2
      /\ tasks[j].kind # tasks[i].kind
      /\ tasks[j].kind \in {"loss", "test"}
      /\ tasks[j].pc \in {"await_alert", "await_test_start"}

C8_RestoreDoesNotCutSweep ==
    \A i \in TaskIds :
      LET t == tasks[i] IN
      (t.kind = "loss" /\ InSweep(t) /\ emitted = "Restored") =>
        IF t.at = "join"
        THEN Len(t.shutdown_results) = Len(t.servers)
        ELSE t.idx <= Len(t.servers) /\ Len(t.shutdown_results) = t.idx - 1

\* Restored was handed over and the held state is OnPower again, and the
\* sweep of the preceding Lost has gone through all its targets
C8_Witness ==
    \E i \in TaskIds :
      /\ tasks[i].kind = "loss" /\ InSweep(tasks[i]) /\ tasks[i].at = "join"
      /\ emitted = "Restored" /\ is_charging
      /\ Len(tasks[i].shutdown_results) = MaxTargets

C10_DelayAfterEveryFailure ==
    \A i \in TaskIds :
      (InSweep(tasks[i]) /\ tasks[i].at \in {"try", "return"})
        => tasks[i].delays = tasks[i].attempt

\* what an attempt that does not end with exit status zero reports: the
\* exception it raised, or the non-zero exit status
AttemptFails(cred, host) ==
    AttemptException(cred, host) # "none" \/ host.exec = "exit1"

AttemptError(cred, host) ==
    IF AttemptException(cred, host) # "none"
    THEN AttemptException(cred, host) ELSE "exit1"

\* C11: a server is reported as a success only if an attempt connected, ran
\* the command and got exit status zero: every successful result line and
\* every successful return carries the success message of a server that has
\* a credential and was connected to, and no attempt on the current server
\* succeeds for a host that refuses the connection or does not report exit
\* status zero.
C11_SuccessOnlyOnExitZero ==
    \A i \in TaskIds :
      LET t == tasks[i] IN
      InSweep(t) =>
        /\ \A k \in 1..Len(t.shutdown_results) :
              t.shutdown_results[k].ok =>
                /\ t.shutdown_results[k].msg.text = "success"
                /\ Connects(t.servers[k].cred)
        /\ (t.at = "return" /\ t.ret.ok) =>
              /\ t.ret.msg.text = "success"
              /\ t.connects > 0
              /\ Connects(Current(t).cred)
        /\ (t.at = "try" /\ t.attempt < max_retries) =>
              \A host \in HostBehaviours :
                Attempt(Current(t).cred, t.attempt, host).ok =>
                  /\ Connects(Current(t).cred)
                  /\ host.connect = "connected"
                  /\ host.exec = "exit0"

\* the first server was reported as failed after a non-zero exit status,
\* the call for the second has returned a success
C11_Witness ==
    \E i \in TaskIds :
      /\ InSweep(tasks[i]) /\ tasks[i].at = "return" /\ tasks[i].idx = 2
      /\ tasks[i].ret.ok
      /\ ~tasks[i].shutdown_results[1].ok
      /\ tasks[i].shutdown_results[1].msg.text = "shutdown_failed"

\* C12: the attempt that succeeds ends the call at once with the number of
\* that attempt (as many connects as the number says), and the next step of
\* the sweep records this outcome and moves on to the next server.
C12_SuccessEndsCall ==
    [][\A i \in TaskIds :
         (InSweep(tasks[i]) /\ i <= Len(tasks') /\ tasks'[i] # tasks[i]) =>
           LET t == tasks[i]
               u == tasks'[i]
           IN /\ (t.at = "try" /\ u.ret.ok) =>
                    /\ u.at = "return"
                    /\ u.attempt = t.attempt
                    /\ u.ret.msg = Msg("success", t.attempt + 1, "none")
                    /\ u.connects = t.attempt + 1
              /\ (t.at = "return" /\ t.ret.ok) =>
                    /\ u.idx = t.idx + 1
                    /\ u.attempt = 0 /\ u.connects = 0
                    /\ u.shutdown_results[t.idx].ok
                    /\ u.shutdown_results[t.idx].msg = t.ret.msg]_vars

\* the first server succeeded on attempt 1 and the call for the second has
\* returned a success on attempt 3
C12_Witness ==
    \E i \in TaskIds :
      /\ InSweep(tasks[i]) /\ tasks[i].at = "return" /\ tasks[i].idx = 2
      /\ tasks[i].shutdown_results[1].msg = Msg("success", 1, "none")
      /\ tasks[i].ret = [ok |-> TRUE, msg |-> Msg("success", 3, "none")]

\* C14: for a server that has a credential, a call returns a failure only
\* from its last iteration (attempt 3), it does so for every host that
\* fails this iteration, and the message carries the error of this
\* iteration.
C14_FailureAtFinalAttempt ==
    \A i \in TaskIds :
      LET t == tasks[i] IN
      (InSweep(t) /\ t.at \in {"try", "return"}
                  /\ ~NoCredential(Current(t).cred)) =>
        /\ (t.at = "return" /\ ~t.ret.ok) =>
              /\ t.attempt = max_retries - 1
              /\ t.ret.msg.text \in {"connection_failed", "shutdown_failed"}
        /\ t.at = "try" =>
              /\ t.attempt < max_retries
              /\ \A host \in HostBehaviours :
                    LET r == Attempt(Current(t).cred, t.attempt, host) IN
                    /\ (r.end = "return" /\ ~r.ok) <=>
                          /\ t.attempt = max_retries - 1
                          /\ AttemptFails(Current(t).cred, host)
                    /\ (r.end = "return" /\ ~r.ok) =>
                          r.msg.err = AttemptError(Current(t).cred, host)

\* two servers have both used up their attempts: the report holds a
\* failure for each, with the error of its own last attempt
C14_Witness ==
    \E i \in TaskIds :
      /\ InSweep(tasks[i]) /\ tasks[i].at = "join"
      /\ Len(tasks[i].shutdown_results) = MaxTargets
      /\ tasks[i].shutdown_results[1].msg =
            Msg("connection_failed", max_retries, "refused")
      /\ tasks[i].shutdown_results[MaxTargets].msg =
            Msg("shutdown_failed", 0, "exit1")

\* C15: a sweep takes its servers in the order of the registry and works
\* through them one after another: the snapshot is the registry and does
\* not change, the position moves on by one server at a time, and each
\* outcome is appended to the report as the line of the server at that
\* position.
C15_ReportInRegistryOrder ==
    [][\A i \in TaskIds :
         (i <= Len(tasks') /\ tasks'[i] # tasks[i]) =>
           LET t == tasks[i]
               u == tasks'[i]
           IN /\ (~InSweep(t) /\ InSweep(u)) =>
                    /\ u.servers = registry
                    /\ u.idx = 1 /\ u.shutdown_results = <<>>
              /\ (InSweep(t) /\ InSweep(u)) =>
                    /\ u.servers = t.servers
                    /\ u.idx \in {t.idx, t.idx + 1}
                    /\ u.idx = t.idx =>
                          u.shutdown_results = t.shutdown_results
                    /\ u.idx = t.idx + 1 =>
                          /\ t.at = "return"
                          /\ u.shutdown_results =
                                Append(t.shutdown_results,
                                       [name |-> t.servers[t.idx].name,
                                        ok |-> t.ret.ok, msg |-> t.ret.msg])
              /\ (InSweep(t) /\ ~InSweep(u)) =>
                    /\ t.at = "join"
                    /\ Len(t.shutdown_results) = Len(t.servers)
                    /\ \A k \in 1..Len(t.servers) :
                          t.shutdown_results[k].name = t.servers[k].name]_vars

\* the sweep of a power loss has gone through the registry: the report
\* holds the lines of all servers in the registry's order
C15_Witness ==
    \E i \in TaskIds :
      /\ tasks[i].kind = "loss" /\ InSweep(tasks[i]) /\ tasks[i].at = "join"
      /\ Len(registry) = MaxTargets
      /\ [k \in 1..MaxTargets |-> tasks[i].shutdown_results[k].name]
            = [k \in 1..MaxTargets |-> registry[k].name]
      /\ tasks[i].shutdown_results[1].msg.text = "no_auth"
      /\ tasks[i].shutdown_results[MaxTargets].ok

C16_FailedReadIsOnPower ==
    [][/\ \A r \in Readings : FailedRead(r) => GetChargingStatus(r)
       /\ read_failed' => (current_charging' /\ ~Handed("loss"))
       /\ Handed("loss") => ~current_charging']_vars

\* on battery, a reading failed: it was taken as "connected to power" and
\* Restored was handed over
C16_Witness ==
    /\ read_failed /\ monitor_pc = "update"
    /\ ~is_charging /\ current_charging
    /\ emitted = "Restored"

\* C17: the first event handed over after the start of the monitoring is
\* Lost: Restored is never handed over while no event has been handed over
\* yet.
C17_FirstEventIsLost ==
    [][Handed("restore") => emitted # "none"]_vars

\* C18: while the held state is "on battery" after a Lost event and the
\* monitoring is on, the reminder thread is alive (in its while loop or in
\* its sleep), so that a reminder follows every 300 s.
C18_ReminderCycleRuns ==
    (emitted = "Lost" /\ ~is_charging /\ is_monitoring) => NotificationAlive

\* C19: no reminder is handed over for an outage that has lasted less than
\* 300 s: the sleep that ends with a reminder did not begin before the
\* Lost event of the outage.
C19_NoTickFromEarlierSleep ==
    [][Handed("reminder") => ~stale_sleep]_vars

\* C20: after Restored has been handed over no reminder is handed over
\* until the next Lost.
C20_NoTickAfterRestored ==
    [][Handed("reminder") => emitted # "Restored"]_vars

\* C21: whenever the polling loop is between two iterations, the reminder
\* thread is alive if and only if the held state is "on battery" and the
\* monitoring is on.
C21_RemindingIffOnBattery ==
    monitor_pc = "read" =>
      (NotificationAlive <=> (~is_charging /\ is_monitoring))

\* C22: Restored ends the sleep of the reminder thread: once Restored has
\* been handed over and the held state is "connected" again, the reminder
\* thread is not in its time.sleep(300) any more.
C22_RestoredCancelsSleep ==
    (emitted = "Restored" /\ is_charging /\ monitor_pc = "read")
      => notification_thread # "sleep"

\* C23: a reminder does not have to wait for a sweep: a reminder that is
\* next in the queue of the loop can start, and one that waits for its
\* send can go on, whether or not a sweep is in flight.
C23_ReminderNotBehindSweep ==
    \A i \in TaskIds :
      tasks[i].kind = "reminder" =>
        /\ FirstQueued(i) => ENABLED message_start(i)
        /\ tasks[i].pc = "await_send" => ENABLED message_sent(i)

\* C24: the held state and the events go together: the held state changes
\* only in the iteration that has handed over the event of this change,
\* and every event handed over is followed by the change of the held state.
C24_EventWithEveryChange ==
    [][/\ is_charging' # is_charging =>
            /\ monitor_pc = "update"
            /\ emitted = (IF is_charging' THEN "Restored" ELSE "Lost")
       /\ (Handed("loss") \/ Handed("restore")) => monitor_pc' = "update"]_vars

\* C25: only the polling loop writes the held state: a step that changes
\* is_charging is the assignment at the end of a loop iteration and
\* nothing else; no step of a handler, of the reminder thread or of a
\* sweep changes it.
C25_SingleWriter ==
    [][is_charging' # is_charging =>
         /\ monitor_pc = "update" /\ monitor_pc' = "read"
         /\ is_charging' = current_charging
         /\ tasks' = tasks /\ running' = running
         /\ notification_thread' = notification_thread]_vars

\* the polling loop has set the held state to "on battery" and back while
\* a power-loss handler is sweeping, the restore handler waits in the
\* queue and the reminder thread sleeps
C25_Witness ==
    /\ is_charging /\ emitted = "Restored" /\ monitor_pc = "read"
    /\ notification_thread = "sleep"
    /\ \E i, j \in TaskIds :
          /\ tasks[i].kind = "loss" /\ InSweep(tasks[i])
          /\ tasks[j].kind = "restore"

\* C26: a single failure ends neither loop: the polling loop never leaves
\* its while loop, and the reminder thread does not end while the held
\* state is "on battery" and the monitoring is on.
C26_LoopsSurviveFailures ==
    [][/\ monitor_pc # "not_started" => monitor_pc' \in {"read", "update"}
       /\ (notification_thread = "sleep" /\ ~is_charging /\ is_monitoring)
             => notification_thread' # "none"]_vars

\* C27: an iteration of the polling loop whose reading failed ends with
\* the longer sleep of 5 seconds: when the reading that led to a hand-over
\* came from the except clause of _get_charging_status, the sleep that
\* ends this iteration is time.sleep(5).
C27_BackoffAfterFailedRead ==
    [][(read_failed /\ monitor_pc = "update" /\ monitor_pc' = "read")
          => PollSleep' = 5]_vars

\* this step is a step of the coroutine at position i
Steps(i) ==
    \/ Dropped(i)
    \/ Len(tasks') >= Len(tasks) /\ tasks'[i] # tasks[i]

\* C28: every power event, every outcome of a server and every reminder
\* gets one row of the event log, whether or not its message could be
\* sent: the step of a handler that follows the send of the outage
\* message, of the restore message or of a reminder appends the row of
\* this event, the step that records the result of a server appends the
\* row of this result, and no step appends more than one row.
C28_EverythingLoggedOnce ==
    [][/\ Len(logged') <= 1
       /\ \A i \in TaskIds :
            /\ (tasks[i].kind = "loss" /\ tasks[i].pc = "await_alert"
                  /\ Steps(i))
                 => logged' = log_event("power_loss", "none", "none")
            /\ (tasks[i].kind = "restore" /\ tasks[i].pc = "await_send"
                  /\ Steps(i))
                 => logged' = log_event("power_restore", "none", "none")
            /\ (tasks[i].kind = "reminder" /\ tasks[i].pc = "await_send"
                  /\ Steps(i))
                 => Len(logged') = 1
            /\ (InSweep(tasks[i]) /\ tasks[i].at = "return" /\ Steps(i))
                 => /\ Len(logged') = 1
                    /\ logged'[1].server_name = Current(tasks[i]).name
                    /\ logged'[1].status =
                          (IF tasks[i].ret.ok THEN "success" ELSE "failed")]_vars

\* a coroutine is inside a shutdown_server or test_connection call that
\* has made an attempt
Attempted(t) == t.pc \in {"sweep", "listing"} /\ t.auth # "none"

\* C29: the password comes before the key file: for a server that has a
\* stored password, no attempt of shutdown_server or test_connection hands
\* the key file to connect, whether or not the key file exists (it hands
\* the decrypted password over, or fails on the decryption); the key file
\* is handed over only when there is no stored password and the file
\* exists.
C29_PasswordBeforeKey ==
    \A i \in TaskIds :
      Attempted(tasks[i]) =>
        LET cred == Current(tasks[i]).cred IN
        /\ cred.password_encrypted # "none"
              => tasks[i].auth \in {"password", "decrypt_error"}
        /\ cred.password_encrypted = "good" => tasks[i].auth = "password"
        /\ tasks[i].auth = "key_filename"
              <=> (cred.password_encrypted = "none" /\ cred.key_file)

\* shutdown_server has returned a success for a server that has a password
\* and a key file, after an attempt with the password
C29_Witness ==
    \E i \in TaskIds :
      /\ tasks[i].pc = "sweep" /\ tasks[i].at = "return" /\ tasks[i].ret.ok
      /\ tasks[i].auth = "password"
      /\ Current(tasks[i]).cred.key_file

\* C30 as stated: every test_connection call that has returned has called
\* connect exactly once, whatever the server.
C30_OriginalExactlyOneConnect ==
    \A i \in TaskIds :
      (tasks[i].pc = "listing" /\ tasks[i].at = "return")
         => tasks[i].connects = 1

\* C30: a test_connection call calls connect at most once, exactly once
\* when the authentication resolves to a password or a key file and not at
\* all when there is no credential or the password cannot be decrypted; it
\* is not retried and does not sleep, it always returns a pair (ok with the
\* success message, or not ok with the error) and no exception leaves it,
\* and what the host would do with a command plays no part in the result.
C30_TestConnectionOnce ==
    [][\A i \in TaskIds :
         (tasks[i].pc = "listing" /\ tasks[i].at = "try" /\ Steps(i)) =>
            /\ ~Dropped(i)
            /\ LET t == tasks'[i]
                   cred == Current(tasks[i]).cred
               IN /\ t.pc = "listing" /\ t.at = "return"
                  /\ t.attempt = 0 /\ t.delays = 0
                  /\ t.connects = (IF Connects(cred) THEN 1 ELSE 0)
                  /\ t.ret.ok => t.ret.msg.text = "connection_successful"
                  /\ ~t.ret.ok => t.ret.msg.text \in {"exception", "no_auth"}
                  /\ \A g, h \in HostBehaviours :
                        g.connect = h.connect
                          => TestConnection(cred, g) = TestConnection(cred, h)]_vars

\* test_connection has returned the refusal of the host as a value, after
\* one connect
C30_Witness ==
    \E i \in TaskIds :
      /\ tasks[i].pc = "listing" /\ tasks[i].at = "return"
      /\ tasks[i].connects = 1
      /\ ~tasks[i].ret.ok /\ tasks[i].ret.msg.err = "refused"

\* C40: a stored password that cannot be decrypted makes every attempt of
\* shutdown_server fail like a connection error, not like a missing
\* credential: the call goes through all max_retries iterations with the
\* sleep before each retry, never calls connect (with the key file or
\* otherwise), and returns the failure of the last iteration with the
\* decryption error.
C40_UndecryptableIsRetried ==
    \A i \in TaskIds :
      LET t == tasks[i] IN
      (InSweep(t) /\ t.at # "join"
                  /\ Current(t).cred.password_encrypted = "bad") =>
        /\ t.at \in {"try", "sleep", "return"}
        /\ t.connects = 0
        /\ t.auth \in {"none", "decrypt_error"}
        /\ t.delays = t.attempt
        /\ t.at = "try" => t.attempt < max_retries
        /\ t.at = "sleep" => t.attempt < max_retries - 1
        /\ t.at = "return" =>
              /\ t.attempt = max_retries - 1
              /\ t.ret = [ok |-> FALSE,
                          msg |-> Msg("connection_failed", max_retries,
                                      "decrypt_error")]

\* shutdown_server has returned for a server whose password cannot be
\* decrypted and whose key file exists, after three iterations and two
\* sleeps
C40_Witness ==
    \E i \in TaskIds :
      /\ InSweep(tasks[i]) /\ tasks[i].at = "return"
      /\ Current(tasks[i]).cred =
            [password_encrypted |-> "bad", key_file |-> TRUE]
      /\ tasks[i].attempt = 2 /\ tasks[i].delays = 2
      /\ tasks[i].ret.msg.err = "decrypt_error"

C36_ConfirmedOnceThenCleared ==
    [][/\ Handed("test") =>
            user_states[tasks'[Len(tasks')].user.id] = "confirming_test"
       /\ \A i \in TaskIds :
            (tasks[i].kind = "test" /\ Dropped(i)) =>
               user_states'[tasks[i].user.id] = "none"]_vars

\* C38: a user has a temp_server_data entry exactly while the dialog state
\* of that user is one of the adding_server_* states.
C38_TempDataExactlyWhileAdding ==
    \A id \in UserIds :
       temp_server_data[id].entry <=> user_states[id] \in AddingStates

\* C39: the add-server dialog stores a server only in its last step, the
\* server it stores is the one that was entered and a connection with the
\* entered credentials can succeed, and a step that ends the dialog in
\* adding_server_command with a stored server leaves neither a dialog
\* state nor temporary data.
C39_StoredAfterTestThenCleared ==
    [][Len(registry') > Len(registry) =>
         \E id \in UserIds :
            LET data == temp_server_data[id]
                cred == EnteredCredentials(data)
            IN /\ user_states[id] = "adding_server_command"
               /\ registry' = Append(registry, Server(data.name, cred))
               /\ \E host \in HostBehaviours : TestConnection(cred, host).ok
               /\ user_states'[id] = "none"
               /\ temp_server_data'[id] = NoData]_vars

\* C37: updates that do not carry the allowed username have no effect: no
\* test shutdown runs on such an update, and an account that never
\* carries the allowed username gets no dialog state and no temporary
\* server data.
C37_UnauthorizedHaveNoEffect ==
    /\ \A i \in TaskIds :
          tasks[i].kind = "test" => is_authorized(tasks[i].user)
    /\ \A id \in UserIds :
          (\A u \in Updates : u.id = id => ~is_authorized(u)) =>
             (user_states[id] = "none" /\ temp_server_data[id] = NoData)

\* C31: the target list of a sweep is the list read when the handler
\* started: as long as the coroutine goes on, its list of servers stays
\* what it was, whatever happens to the servers table, and the result
\* lines it has collected are those of the first servers of that list, in
\* that order.
C31_SweepKeepsItsSnapshot ==
    /\ [][\A i \in TaskIds :
            (tasks[i].pc \in {"await_test_start", "sweep"}
               /\ Len(tasks') = Len(tasks)) =>
              tasks'[i].servers = tasks[i].servers]_vars
    /\ [](\A i \in TaskIds :
            InSweep(tasks[i]) =>
              /\ Len(tasks[i].shutdown_results) = tasks[i].idx - 1
              /\ \A k \in 1..Len(tasks[i].shutdown_results) :
                    tasks[i].shutdown_results[k].name =
                       tasks[i].servers[k].name)

\* a sweep has attempted all its servers and the servers table no longer
\* holds the rows it started with
C31_Witness ==
    \E i \in TaskIds :
       /\ InSweep(tasks[i]) /\ tasks[i].at = "join"
       /\ Len(tasks[i].servers) = 2
       /\ NamesOf(registry) # NamesOf(tasks[i].servers)

\* C32: at most one thread is inside the loop of _monitor_power, whatever
\* the sequence of start_monitoring and stop_monitoring calls.
C32_AtMostOnePollingLoop ==
    old_loops + (IF PollingAlive THEN 1 ELSE 0) <= 1

\* C35: after stop_monitoring on battery the reminder thread hands over
\* at most one more reminder, as long as no new Lost event was emitted.
C35_OneTickAfterStop ==
    ticks_after_stop \in {NoStop, 0, 1}

\* C33: a Lost event starts a reminder thread only when none is alive: a
\* thread that is alive when the event is handed over is left where it
\* is, so that there is never a second one next to it.
C33_OneReminderThread ==
    [][(Handed("loss") /\ NotificationAlive) =>
          notification_thread' = notification_thread]_vars

\* a Lost event was handed over while the reminder thread of the outage
\* before was in its sleep, and that thread is still there
C33_Witness ==
    emitted = "Lost" /\ stale_sleep /\ notification_thread = "sleep"
====
